---- MODULE Spec2Model ----
(***************************************************************************)
(* A model of src/app.py: the /order handler place_order (validation,      *)
(* pricing, the two-table insert transaction, the confirmation mail) and   *)
(* the /health probe loop try_db_connect.                                  *)
(*                                                                         *)
(* Text is a sequence of one-character strings.  A Python float is either  *)
(* NaN or an integer number of mills (1/1000 of a currency unit): every    *)
(* price text of the model has at most three fraction digits, and no       *)
(* amount of the model is an odd number of half-cents, so the binary       *)
(* floating point error of float(), * and += (below 1e-9 here) never       *)
(* changes a value rounded to two decimals.  Values stored in DECIMAL(n,2) *)
(* columns, and values printed with :.2f, are integers of cents.           *)
(***************************************************************************)
EXTENDS Integers, Sequences, FiniteSets, TLC

VARIABLES
    req,      \* per request of /order: the locals of place_order and its outcome
    db,       \* the MySQL store: committed rows, open transactions, counters
    hc        \* the /health request: the locals of try_db_connect and its outcome

vars == <<req, db, hc>>

(***************************************************************************)
(* Bounds of the model.                                                    *)
(***************************************************************************)
MaxRequests == 2      \* concurrent /order requests of Spec
MaxItems == 2         \* order_items entries of one form of SpecParse
MaxAttempts == 5      \* largest max_attempts given to try_db_connect
MaxBaseDelay == 2     \* largest base_delay given to try_db_connect

(***************************************************************************)
(* Program constants.                                                      *)
(***************************************************************************)
MaxNameLen == 100          \* len(customer_name) > 100
DefaultMaxAttempts == 5    \* try_db_connect(max_attempts=5, ...)
DefaultBaseDelay == 1      \* try_db_connect(..., base_delay=1)
StatusOk == 200
StatusUnavailable == 503

(***************************************************************************)
(* Text.                                                                   *)
(***************************************************************************)
DigitSeq == <<"0", "1", "2", "3", "4", "5", "6", "7", "8", "9">>
Digits == {DigitSeq[i] : i \in 1..10}
DigitVal(c) == (CHOOSE i \in 1..10 : DigitSeq[i] = c) - 1

Letters ==
    {"a", "b", "c", "d", "e", "f", "g", "h", "i", "j", "k", "l", "m", "n", "o",
     "p", "q", "r", "s", "t", "u", "v", "w", "x", "y", "z",
     "A", "C", "D", "M", "P"}

\* \w of the regular expression
WordChars == Letters \cup Digits \cup {"_"}
\* [\w\.-]
WordDotDash == WordChars \cup {".", "-"}

Rep(c, n) == [i \in 1..n |-> c]

RECURSIVE LStrip(_)
LStrip(s) == IF s # <<>> /\ Head(s) = " " THEN LStrip(Tail(s)) ELSE s

RECURSIVE RStrip(_)
RStrip(s) ==
    IF s # <<>> /\ s[Len(s)] = " " THEN RStrip(SubSeq(s, 1, Len(s) - 1)) ELSE s

\* str.strip()
Strip(s) == RStrip(LStrip(s))

\* re.match(r'^[\w\.-]+@[\w\.-]+\.\w+$', s): some "@" at i and some "." at j
\* cut s into a non-empty [\w\.-] run, a non-empty [\w\.-] run and a
\* non-empty \w run.
MatchEmail(s) ==
    \E i \in 1..Len(s) : \E j \in 1..Len(s) :
        /\ 1 < i /\ i + 1 < j /\ j < Len(s)
        /\ s[i] = "@"
        /\ s[j] = "."
        /\ \A k \in 1..(i - 1) : s[k] \in WordDotDash
        /\ \A k \in (i + 1)..(j - 1) : s[k] \in WordDotDash
        /\ \A k \in (j + 1)..Len(s) : s[k] \in WordChars

\* val.split('||'): cut at each "||", scanning from the left
RECURSIVE Split(_)
Split(s) ==
    LET hits == {i \in 1..(Len(s) - 1) : s[i] = "|" /\ s[i + 1] = "|"}
    IN  IF hits = {} THEN <<s>>
        ELSE LET i == CHOOSE h \in hits : \A g \in hits : h <= g
             IN  <<SubSeq(s, 1, i - 1)>> \o Split(SubSeq(s, i + 2, Len(s)))

\* name.replace(' ', '_')
Replace(s) == [i \in 1..Len(s) |-> IF s[i] = " " THEN "_" ELSE s[i]]

\* 'qty_' + name.replace(' ', '_')
QtyKey(name) == <<"q", "t", "y", "_">> \o Replace(name)

\* str.isdigit()
IsDigit(s) == s # <<>> /\ \A i \in 1..Len(s) : s[i] \in Digits

\* int(s) of a digit string
RECURSIVE ToInt(_)
ToInt(s) ==
    IF s = <<>> THEN 0
    ELSE ToInt(SubSeq(s, 1, Len(s) - 1)) * 10 + DigitVal(s[Len(s)])

\* Python floats: NaN, or a number of mills
Float(m) == [nan |-> FALSE, mills |-> m]
NaN == [nan |-> TRUE, mills |-> 0]

\* price * qty
FMul(x, n) == IF x.nan THEN NaN ELSE Float(x.mills * n)

\* total += subtotal
FAdd(x, y) == IF x.nan \/ y.nan THEN NaN ELSE Float(x.mills + y.mills)

\* float(s) for the price texts of the model: an optional sign, then "nan",
\* or digits with at most one "." and at most three fraction digits (no
\* exponent, "inf", "_" or blank occurs in them).  [ok, value]; ok = FALSE
\* is float's ValueError.
ParseFloat(s) ==
    LET signed == s # <<>> /\ s[1] \in {"-", "+"}
        body == IF signed THEN Tail(s) ELSE s
        dots == {i \in 1..Len(body) : body[i] = "."}
        dot == IF dots = {} THEN Len(body) + 1 ELSE CHOOSE i \in dots : TRUE
        whole == SubSeq(body, 1, dot - 1)
        frac == SubSeq(body, dot + 1, Len(body))
        d(i) == IF i <= Len(frac) THEN DigitVal(frac[i]) ELSE 0
        okay == /\ Cardinality(dots) <= 1
                /\ \A i \in 1..Len(body) : i \notin dots => body[i] \in Digits
                /\ Len(whole) + Len(frac) >= 1
        mag == ToInt(whole) * 1000 + d(1) * 100 + d(2) * 10 + d(3)
    IN  IF body = <<"n", "a", "n">> THEN [ok |-> TRUE, value |-> NaN]
        ELSE IF ~okay THEN [ok |-> FALSE, value |-> Float(0)]
        ELSE [ok |-> TRUE,
              value |-> Float(IF signed /\ s[1] = "-" THEN 0 - mag ELSE mag)]

\* A float (not NaN) rounded to two decimals, in cents: what a DECIMAL(n,2)
\* column keeps of it and what :.2f prints of it.
Round2(x) ==
    IF x.mills >= 0 THEN (x.mills + 5) \div 10
    ELSE 0 - ((5 - x.mills) \div 10)

(***************************************************************************)
(* place_order, lines 204-238: validation and pricing of a submitted form. *)
(* A form is [customer_name, customer_email, order_items, qty]: the two    *)
(* text fields, the list of order_items values, and the qty_* fields as a  *)
(* function from field name to text.                                       *)
(***************************************************************************)
MsgName == "Please provide a valid customer name (1-100 characters)."
MsgEmail == "Please provide a valid email address."
MsgNoItems == "Please select at least one item."
MsgItemFormat == "Error processing order: Invalid item format"
MsgPrice == "Error processing order: could not convert string to float"
MsgQuantity == "Error processing order: Invalid quantity"
MsgStore == "Error saving order to database."
MsgMail == "Order placed, but failed to send confirmation email."

\* request.form.get(qty_key, '1')
FormGet(qty, key) == IF key \in DOMAIN qty THEN qty[key] ELSE <<"1">>

\* One turn of the loop of lines 222-235 on the value val: the tuple appended
\* to order_details, or the message of the ValueError raised.
ParseLine(val, qty) ==
    LET parts == Split(val)
        category == parts[1]
        name == parts[2]
        price == ParseFloat(parts[3])
        q == FormGet(qty, QtyKey(name))
    IN  IF Len(parts) # 3 THEN [ok |-> FALSE, error |-> MsgItemFormat]
        ELSE IF ~price.ok THEN [ok |-> FALSE, error |-> MsgPrice]
        ELSE IF ~IsDigit(q) \/ ToInt(q) <= 0
             THEN [ok |-> FALSE, error |-> MsgQuantity]
        ELSE [ok |-> TRUE,
              line |-> [category |-> category, name |-> name,
                        price |-> price.value, qty |-> ToInt(q),
                        subtotal |-> FMul(price.value, ToInt(q))]]

\* The loop of lines 219-238 from the k-th value on, with order_details and
\* total as accumulated so far; the first invalid value ends it.
RECURSIVE ParseFrom(_, _, _, _, _)
ParseFrom(items, qty, k, order_details, total) ==
    IF k > Len(items)
    THEN [ok |-> TRUE, order_details |-> order_details, total |-> total]
    ELSE LET one == ParseLine(items[k], qty)
         IN  IF ~one.ok THEN [ok |-> FALSE, error |-> one.error]
             ELSE ParseFrom(items, qty, k + 1,
                            Append(order_details, one.line),
                            FAdd(total, one.line.subtotal))

ParseItems(items, qty) == ParseFrom(items, qty, 1, <<>>, Float(0))

\* Lines 204-238 on the form f: the message flashed with the redirect, or
\* the stripped fields, order_details and total the handler goes on with.
Validate(f) ==
    LET customer_name == Strip(f.customer_name)
        customer_email == Strip(f.customer_email)
        items == f.order_items
        parsed == ParseItems(items, f.qty)
    IN  IF customer_name = <<>> \/ Len(customer_name) > MaxNameLen
        THEN [ok |-> FALSE, error |-> MsgName]
        ELSE IF customer_email = <<>> \/ ~MatchEmail(customer_email)
        THEN [ok |-> FALSE, error |-> MsgEmail]
        ELSE IF items = <<>> THEN [ok |-> FALSE, error |-> MsgNoItems]
        ELSE IF ~parsed.ok THEN [ok |-> FALSE, error |-> parsed.error]
        ELSE [ok |-> TRUE, customer_name |-> customer_name,
              customer_email |-> customer_email,
              order_details |-> parsed.order_details, total |-> parsed.total]

(***************************************************************************)
(* The forms submitted.                                                    *)
(***************************************************************************)
Ann == <<" ", "A", "n", "n", " ">>
AnnMail == <<"a", "n", "n", "@", "x", ".", "c", "o", "m">>
Mocha == <<"M", "o", "c", "h", "a">>
Bar == <<"|", "|">>
Coffee == <<"c", "o", "f", "f", "e", "e">>
Dessert == <<"d", "e", "s", "s", "e", "r", "t">>

TokMocha == Coffee \o Bar \o Mocha \o Bar \o <<"4", ".", "5", "0">>
TokPie ==
    Dessert \o Bar \o <<"C", "h", "e", "r", "r", "y", " ", "P", "i", "e">>
        \o Bar \o <<"2", ".", "7", "5">>
TokNegative == Coffee \o Bar \o Mocha \o Bar \o <<"-", "4", ".", "5", "0">>
TokSubCent ==
    Dessert \o Bar \o <<"D", "o", "n", "u", "t">> \o Bar
        \o <<"0", ".", "0", "0", "4">>
TokNotNumber == Coffee \o Bar \o Mocha \o Bar \o <<"a", "b", "c">>
TokNaN == Coffee \o Bar \o Mocha \o Bar \o <<"n", "a", "n">>
TokTwoFields == Coffee \o Bar \o Mocha
TokFourFields == TokMocha \o Bar \o <<"x">>

Tokens ==
    {TokMocha, TokPie, TokNegative, TokSubCent, TokNotNumber, TokNaN,
     TokTwoFields, TokFourFields}

NoQty == <<>>
QtyMocha(text) == (QtyKey(Mocha) :> text)
QtyPie == (QtyKey(<<"C", "h", "e", "r", "r", "y", " ", "P", "i", "e">>)
              :> <<"3">>)

Quantities ==
    {NoQty, QtyPie, QtyMocha(<<"2">>), QtyMocha(<<"0">>),
     QtyMocha(<<"-", "1">>), QtyMocha(<<"x">>), QtyMocha(<<>>)}

Names ==
    {<<>>, <<" ", " ">>, Ann, Rep("a", MaxNameLen), Rep("a", MaxNameLen + 1)}

Emails ==
    {<<>>, AnnMail,
     <<"a", "n", "n", "x", ".", "c", "o", "m">>,
     <<"a", "n", "n", "@", "x", "c", "o", "m">>,
     <<"@", "x", ".", "c", "o", "m">>,
     <<"a", "n", "n", "@", "x", ".">>,
     <<"a", "n", "n", "@", "x", ".", "c", "-">>,
     <<"a", " ", "n", "@", "x", ".", "c", "o", "m">>,
     <<"a", ".", "n", "-", "n", "@", "x", "-", "y", ".", "c", "o", ".", "u", "k">>}

ItemLists == UNION {[1..n -> Tokens] : n \in 0..MaxItems}

Form(name, email, items, qty) ==
    [customer_name |-> name, customer_email |-> email, order_items |-> items,
     qty |-> qty]

\* The forms of SpecParse: every list of up to MaxItems values with every
\* quantity field, and every name and every address with one valid value.
ParseForms ==
    {Form(Ann, AnnMail, items, qty) : items \in ItemLists, qty \in Quantities}
        \cup {Form(n, AnnMail, <<TokMocha>>, NoQty) : n \in Names}
        \cup {Form(Ann, e, <<TokMocha>>, NoQty) : e \in Emails}

\* The forms of Spec: one line, two lines, and no line at all.
OrderForms ==
    {Form(Ann, AnnMail, <<TokMocha>>, QtyMocha(<<"2">>)),
     Form(Ann, AnnMail, <<TokPie, TokMocha>>, NoQty),
     Form(Ann, AnnMail, <<>>, NoQty)}

(***************************************************************************)
(* The store.  orders and order_items are the committed rows; tx[r] holds  *)
(* the rows written on request r's connection and not yet committed (the   *)
(* connector leaves autocommit off); the AUTO_INCREMENT counters are never *)
(* given back.  Amounts are kept as DECIMAL(n,2): cents.  The field by of  *)
(* a row records the request that wrote it (history, not a column).        *)
(* order_time is left out: nothing below reads it.  A NaN has no DECIMAL   *)
(* value: the INSERT of one raises (NaN is sent as NULL or as the word     *)
(* nan, and both total_amount NOT NULL and the parser refuse it).          *)
(***************************************************************************)
NoTx == [orders |-> {}, order_items |-> {}, lastrowid |-> 0]

InitDb(Reqs) ==
    [orders |-> {}, order_items |-> {}, tx |-> [r \in Reqs |-> NoTx],
     next_order_id |-> 1, next_item_id |-> 1, reachable |-> TRUE]

\* A plausible slip: the connection runs with autocommit on, so the header
\* row is committed by the INSERT itself.
InsertOrderAutocommit(d, r, total) ==
    [d EXCEPT !.orders = @ \cup {[id |-> d.next_order_id,
                                  total_amount |-> Round2(total), by |-> r]},
              !.tx[r].lastrowid = d.next_order_id,
              !.next_order_id = @ + 1]

\* cursor.execute("INSERT INTO orders (order_time, total_amount) ...")
InsertOrder(d, r, total) ==
    [d EXCEPT !.tx[r].orders = @ \cup {[id |-> d.next_order_id,
                                        total_amount |-> Round2(total),
                                        by |-> r]},
              !.tx[r].lastrowid = d.next_order_id,
              !.next_order_id = @ + 1]

\* cursor.lastrowid: the id generated by the last INSERT of this cursor
LastRowId(d, r) == d.tx[r].lastrowid

\* A plausible slip: the line rows take the newest order id of the store
\* instead of the id this request's header was given.
ItemRowNewestOrder(q, d, r, k) ==
    LET line == q.order_details[k]
    IN  [id |-> d.next_item_id, customer_name |-> q.customer_name,
         customer_email |-> q.customer_email,
         order_id |-> d.next_order_id - 1,
         category |-> line.category, item_name |-> line.name,
         unit_price |-> Round2(line.price), quantity |-> line.qty,
         subtotal |-> Round2(line.subtotal), by |-> r]

\* The row of the k-th INSERT INTO order_items of request r
ItemRow(q, d, r, k) ==
    LET line == q.order_details[k]
    IN  [id |-> d.next_item_id, customer_name |-> q.customer_name,
         customer_email |-> q.customer_email, order_id |-> q.order_id,
         category |-> line.category, item_name |-> line.name,
         unit_price |-> Round2(line.price), quantity |-> line.qty,
         subtotal |-> Round2(line.subtotal), by |-> r]

\* FOREIGN KEY (order_id) REFERENCES orders(id), as seen from r's transaction
ForeignKeyOk(d, r, row) ==
    \E o \in d.orders \cup d.tx[r].orders : o.id = row.order_id

\* cursor.execute("INSERT INTO order_items (...) ...")
InsertItem(d, r, row) ==
    [d EXCEPT !.tx[r].order_items = @ \cup {row},
              !.tx[r].lastrowid = row.id,
              !.next_item_id = @ + 1]

\* conn.commit()
CommitTx(d, r) ==
    [d EXCEPT !.orders = @ \cup d.tx[r].orders,
              !.order_items = @ \cup d.tx[r].order_items,
              !.tx[r] = NoTx]

\* conn.close(): the server rolls back what the connection left uncommitted
CloseConn(d, r) == [d EXCEPT !.tx[r] = NoTx]

(***************************************************************************)
(* place_order, lines 242-269.  req[r] holds the locals of request r, its  *)
(* flashed messages and its response, and as history: connects and sends   *)
(* (calls of mysql.connector.connect and mail.send), committed (commit     *)
(* returned), before (the requests answered when r arrived).               *)
(***************************************************************************)
NewReq ==
    [pc |-> "new", form |-> Form(<<>>, <<>>, <<>>, NoQty),
     customer_name |-> <<>>, customer_email |-> <<>>,
     order_details |-> <<>>, total |-> Float(0),
     conn |-> "unset", cursor |-> "unset", order_id |-> 0, k |-> 0,
     flashes |-> <<>>, result |-> [kind |-> "none"],
     connects |-> 0, sends |-> 0, mail |-> [sent |-> "no"],
     committed |-> FALSE, before |-> {}]

\* A plausible slip: the finally block closes the cursor or else the
\* connection.
FinallyCursorOnly(q) ==
    IF q.cursor # "unset" THEN [q EXCEPT !.cursor = "closed"]
    ELSE [q EXCEPT !.conn = IF @ = "unset" THEN @ ELSE "closed"]

\* finally: (lines 261-265)
Finally(q) ==
    [q EXCEPT !.cursor = IF @ = "unset" THEN @ ELSE "closed",
              !.conn = IF @ = "unset" THEN @ ELSE "closed"]

\* A plausible slip: the except block does not return, and the handler goes
\* on to the confirmation mail.
StoreErrorNoReturn(q) ==
    Finally([q EXCEPT !.flashes = Append(@, MsgStore), !.pc = "send"])

\* except mysql.connector.Error (lines 257-260), then finally
StoreError(q) ==
    Finally([q EXCEPT !.flashes = Append(@, MsgStore),
                      !.result = [kind |-> "redirect"], !.pc = "done"])

\* Any other exception leaves the try statement through finally alone and
\* ends the request with the framework's error response.
OtherError(q) == Finally([q EXCEPT !.result = [kind |-> "raised"], !.pc = "done"])

Raise(q, out) == IF out = "dberr" THEN StoreError(q) ELSE OtherError(q)

\* What the store keeps once the try statement is left with q as locals
Released(d, r, q) == IF q.conn = "closed" THEN CloseConn(d, r) ELSE d

Errors == {"dberr", "other"}
Outcomes == {"ok"} \cup Errors

\* The message built by lines 168-192
MailOf(q) ==
    [to |-> q.customer_email, customer_name |-> q.customer_name,
     lines |-> [i \in 1..Len(q.order_details) |->
                   [name |-> q.order_details[i].name,
                    qty |-> q.order_details[i].qty,
                    price |-> Round2(q.order_details[i].price),
                    subtotal |-> Round2(q.order_details[i].subtotal)]],
     total |-> Round2(q.total)]

\* A plausible slip: send_order_email does not catch the failure of
\* mail.send.
SendOrderEmailUncaught(q, delivered) ==
    IF delivered
    THEN [q EXCEPT !.sends = @ + 1, !.mail = [sent |-> "yes", msg |-> MailOf(q)]]
    ELSE [q EXCEPT !.sends = @ + 1, !.mail = [sent |-> "failed", msg |-> MailOf(q)],
                   !.result = [kind |-> "raised"], !.pc = "done"]

\* send_order_email (lines 166-198); delivered = FALSE is mail.send raising
SendOrderEmail(q, delivered) ==
    IF delivered
    THEN [q EXCEPT !.sends = @ + 1, !.mail = [sent |-> "yes", msg |-> MailOf(q)]]
    ELSE [q EXCEPT !.sends = @ + 1, !.mail = [sent |-> "failed", msg |-> MailOf(q)],
                   !.flashes = Append(@, MsgMail)]

\* return render_template('confirmation.html', ...) (line 269)
Render(q) ==
    [q EXCEPT !.result = [kind |-> "confirmation", order_id |-> q.order_id,
                          items |-> q.order_details, total |-> q.total],
              !.pc = "done"]

\* Lines 204-238: request r arrives with a form of the set forms.  Requests
\* are numbered in the order they arrive.
Arrive(r, forms) ==
    /\ req[r].pc = "new"
    /\ \A q \in DOMAIN req : q < r => req[q].pc # "new"
    /\ \E f \in forms :
        LET v == Validate(f)
            seen == {q \in DOMAIN req : req[q].pc = "done"}
        IN  req' = [req EXCEPT ![r] =
                IF v.ok
                THEN [@ EXCEPT !.form = f, !.before = seen,
                               !.customer_name = v.customer_name,
                               !.customer_email = v.customer_email,
                               !.order_details = v.order_details,
                               !.total = v.total, !.pc = "connect"]
                ELSE [@ EXCEPT !.form = f, !.before = seen,
                               !.flashes = Append(@, v.error),
                               !.result = [kind |-> "redirect"],
                               !.pc = "done"]]
    /\ UNCHANGED <<db, hc>>

\* Lines 243-245: connect, then open the cursor
Connect(r) ==
    /\ req[r].pc = "connect"
    /\ \E at \in {"connect", "cursor"} : \E out \in Outcomes :
        LET q == [req[r] EXCEPT !.connects = @ + 1]
            c == [q EXCEPT !.conn = "open"]
            next == IF at = "connect" /\ out \in Errors THEN Raise(q, out)
                    ELSE IF out \in Errors THEN Raise(c, out)
                    ELSE [c EXCEPT !.cursor = "open", !.pc = "insert_header"]
        IN  /\ out = "ok" => at = "cursor" /\ db.reachable
            /\ req' = [req EXCEPT ![r] = next]
            /\ db' = Released(db, r, next)
    /\ UNCHANGED hc

\* Lines 246-250: insert the header row and read its id
InsertHeader(r) ==
    /\ req[r].pc = "insert_header"
    /\ \E out \in Outcomes :
        IF out = "ok"
        THEN LET d == InsertOrder(db, r, req[r].total)
             IN  /\ ~req[r].total.nan
                 /\ db' = d
                 /\ req' = [req EXCEPT ![r].order_id = LastRowId(d, r),
                                       ![r].pc = "insert_items"]
        ELSE LET next == Raise(req[r], out)
             IN  /\ req' = [req EXCEPT ![r] = next]
                 /\ db' = Released(db, r, next)
    /\ UNCHANGED hc

\* Lines 251-255: one turn of the loop over order_details
InsertLine(r) ==
    /\ req[r].pc = "insert_items"
    /\ req[r].k < Len(req[r].order_details)
    /\ \E out \in Outcomes :
        LET row == ItemRow(req[r], db, r, req[r].k + 1)
        IN  IF out = "ok"
            THEN /\ ForeignKeyOk(db, r, row)
                 /\ db' = InsertItem(db, r, row)
                 /\ req' = [req EXCEPT ![r].k = @ + 1]
            ELSE LET next == Raise(req[r], out)
                 IN  /\ req' = [req EXCEPT ![r] = next]
                     /\ db' = Released(db, r, next)
    /\ UNCHANGED hc

\* A plausible slip: order_id = cursor.lastrowid is read after the loop, when
\* it is the id of the last line row.
CommitReadsIdLate(r) ==
    /\ req[r].pc = "insert_items"
    /\ req[r].k = Len(req[r].order_details)
    /\ \E out \in Outcomes :
        LET late == [req[r] EXCEPT !.order_id = LastRowId(db, r)]
            next == IF out = "ok"
                    THEN Finally([late EXCEPT !.committed = TRUE,
                                              !.pc = "send"])
                    ELSE Raise(late, out)
        IN  /\ req' = [req EXCEPT ![r] = next]
            /\ db' = Released(IF out = "ok" THEN CommitTx(db, r) ELSE db, r, next)
    /\ UNCHANGED hc

\* Line 256 and the finally block: commit, then close
Commit(r) ==
    /\ req[r].pc = "insert_items"
    /\ req[r].k = Len(req[r].order_details)
    /\ \E out \in Outcomes :
        LET next == IF out = "ok"
                    THEN Finally([req[r] EXCEPT !.committed = TRUE,
                                                !.pc = "send"])
                    ELSE Raise(req[r], out)
        IN  /\ req' = [req EXCEPT ![r] = next]
            /\ db' = Released(IF out = "ok" THEN CommitTx(db, r) ELSE db, r, next)
    /\ UNCHANGED hc

\* Lines 267-269: the confirmation mail, then the confirmation page
SendAndRender(r) ==
    /\ req[r].pc = "send"
    /\ \E delivered \in BOOLEAN :
        LET s == SendOrderEmail(req[r], delivered)
        IN  req' = [req EXCEPT ![r] = IF s.pc = "done" THEN s ELSE Render(s)]
    /\ UNCHANGED <<db, hc>>

(***************************************************************************)
(* try_db_connect and /health, lines 135-157.  hc holds the arguments and  *)
(* locals of the one call, and as history: probes (connect calls made),    *)
(* waits (the delays slept, in order) and slept (their sum).  A probe      *)
(* succeeds exactly when the store is reachable at that moment.            *)
(***************************************************************************)
RECURSIVE Pow2(_)
Pow2(n) == IF n <= 0 THEN 1 ELSE 2 * Pow2(n - 1)

\* A plausible slip: the delay grows linearly with the attempt.
DelayLinear(base_delay, attempt) == base_delay * attempt

\* delay = base_delay * (2 ** (attempt - 1))
Delay(base_delay, attempt) == base_delay * Pow2(attempt - 1)

InitHc ==
    [pc |-> "idle", route |-> FALSE, max_attempts |-> 0, base_delay |-> 0,
     attempt |-> 0, probes |-> 0, waits |-> <<>>, slept |-> 0,
     result |-> [ok |-> FALSE, msg |-> <<"none">>], status |-> 0]

\* return False, f"failed after {max_attempts} attempts", and in /health the
\* status code of line 156
Finish(h, ok, msg) ==
    [h EXCEPT !.pc = "done", !.result = [ok |-> ok, msg |-> msg],
              !.status = IF ~h.route THEN 0
                         ELSE IF ok THEN StatusOk ELSE StatusUnavailable]

FailedAfter(h) == <<"failed after", h.max_attempts, "attempts">>

\* The call enters the for loop: range(1, max_attempts + 1) may be empty
Enter(h) ==
    IF h.max_attempts >= 1 THEN [h EXCEPT !.pc = "probe", !.attempt = 1]
    ELSE Finish(h, FALSE, FailedAfter(h))

\* try_db_connect(max_attempts, base_delay) called directly
CallTryDbConnect ==
    /\ hc.pc = "idle"
    /\ \E m \in 0..MaxAttempts : \E b \in 1..MaxBaseDelay :
        hc' = Enter([hc EXCEPT !.max_attempts = m, !.base_delay = b])
    /\ UNCHANGED <<req, db>>

\* GET /health: try_db_connect() with its defaults
Health ==
    /\ hc.pc = "idle"
    /\ hc' = Enter([hc EXCEPT !.route = TRUE,
                              !.max_attempts = DefaultMaxAttempts,
                              !.base_delay = DefaultBaseDelay])
    /\ UNCHANGED <<req, db>>

\* One turn of the for loop, lines 136-150
Probe ==
    /\ hc.pc = "probe"
    /\ LET h == [hc EXCEPT !.probes = @ + 1]
           delay == Delay(h.base_delay, h.attempt)
           waited == [h EXCEPT !.waits = Append(@, delay), !.slept = @ + delay]
       IN  hc' = IF db.reachable THEN Finish(h, TRUE, <<"ok">>)
                 ELSE IF h.attempt < h.max_attempts
                      THEN [waited EXCEPT !.attempt = @ + 1]
                      ELSE Finish(waited, FALSE, FailedAfter(waited))
    /\ UNCHANGED <<req, db>>

\* The store becomes unreachable, or reachable again
StoreDown ==
    /\ db.reachable
    /\ db' = [db EXCEPT !.reachable = FALSE]
    /\ UNCHANGED <<req, hc>>

StoreUp ==
    /\ ~db.reachable
    /\ db' = [db EXCEPT !.reachable = TRUE]
    /\ UNCHANGED <<req, hc>>

(***************************************************************************)
(* Specifications.                                                         *)
(***************************************************************************)
Requests == 1..MaxRequests

\* Concurrent /order requests, each on its own connection
Init ==
    /\ req = [r \in Requests |-> NewReq]
    /\ db = InitDb(Requests)
    /\ hc = InitHc

Next ==
    \/ \E r \in Requests : Arrive(r, OrderForms)
    \/ \E r \in Requests : Connect(r)
    \/ \E r \in Requests : InsertHeader(r)
    \/ \E r \in Requests : InsertLine(r)
    \/ \E r \in Requests : Commit(r)
    \/ \E r \in Requests : SendAndRender(r)

Spec == Init /\ [][Next]_vars

\* One /order request on a fresh store, over every form of ParseForms
InitParse ==
    /\ req = [r \in {1} |-> NewReq]
    /\ db = InitDb({1})
    /\ hc = InitHc

NextParse ==
    \/ Arrive(1, ParseForms)
    \/ Connect(1)
    \/ InsertHeader(1)
    \/ InsertLine(1)
    \/ Commit(1)
    \/ SendAndRender(1)

SpecParse == InitParse /\ [][NextParse]_vars

\* One call of try_db_connect against a store that comes and goes
InitHealth ==
    /\ req = [r \in {1} |-> NewReq]
    /\ db \in {[InitDb({1}) EXCEPT !.reachable = up] : up \in BOOLEAN}
    /\ hc = InitHc

NextHealth ==
    \/ CallTryDbConnect
    \/ Health
    \/ Probe
    \/ StoreDown
    \/ StoreUp

SpecHealth == InitHealth /\ [][NextHealth]_vars

\* /order requests one after the other: a request arrives once every
\* earlier one is answered
InitSeq ==
    /\ req = [r \in 1..(MaxRequests + 1) |-> NewReq]
    /\ db = InitDb(1..(MaxRequests + 1))
    /\ hc = InitHc

ArriveNext(r) ==
    /\ \A q \in DOMAIN req : q < r => req[q].pc = "done"
    /\ Arrive(r, OrderForms)

NextSeq ==
    \/ \E r \in DOMAIN req : ArriveNext(r)
    \/ \E r \in DOMAIN req : Connect(r)
    \/ \E r \in DOMAIN req : InsertHeader(r)
    \/ \E r \in DOMAIN req : InsertLine(r)
    \/ \E r \in DOMAIN req : Commit(r)
    \/ \E r \in DOMAIN req : SendAndRender(r)

SpecSeq == InitSeq /\ [][NextSeq]_vars

(***************************************************************************)
(* The properties.                                                         *)
(***************************************************************************)
Reqs == DOMAIN req

\* The committed rows written by request r
HeadersBy(r) == {o \in db.orders : o.by = r}
LinesBy(r) == {i \in db.order_items : i.by = r}

\* The committed line rows that reference the header o
LinesOf(o) == {i \in db.order_items : i.order_id = o.id}

\* The committed line row i is the k-th line of request r, as stored
IsLine(i, r, k) ==
    LET line == req[r].order_details[k]
    IN  /\ i.customer_name = req[r].customer_name
        /\ i.customer_email = req[r].customer_email
        /\ i.category = line.category
        /\ i.item_name = line.name
        /\ i.unit_price = Round2(line.price)
        /\ i.quantity = line.qty
        /\ i.subtotal = Round2(line.subtotal)

\* The rows of S, taken by ascending id, are exactly the lines of request r
InSubmissionOrder(S, r) ==
    /\ Cardinality(S) = Len(req[r].order_details)
    /\ \A i \in S : IsLine(i, r, Cardinality({j \in S : j.id < i.id}) + 1)

\* The store holds request r's order whole: its one header and all its lines
HoldsWhole(r) ==
    /\ \E o \in db.orders :
        /\ HeadersBy(r) = {o}
        /\ o.id = req[r].order_id
        /\ o.total_amount = Round2(req[r].total)
        /\ LinesOf(o) = LinesBy(r)
    /\ InSubmissionOrder(LinesBy(r), r)

HoldsNothing(r) == HeadersBy(r) = {} /\ LinesBy(r) = {}

Confirmed(r) == req[r].pc = "done" /\ req[r].result.kind = "confirmation"

\* C1: order creation is atomic.  At every moment, and so after every run
\* of place_order, whatever step of the transaction failed, the store holds
\* of each submission either the header row with all the line rows of that
\* submission, or no row at all; and a run that did not commit leaves none.
OrderIsAtomic ==
    \A r \in Reqs :
        /\ HoldsWhole(r) \/ HoldsNothing(r)
        /\ req[r].pc = "done" /\ ~req[r].committed => HoldsNothing(r)

\* A run failed after its header insert and before any line insert, another
\* one between two line inserts, and the store holds no row of either.
RolledBackAfterHeader ==
    \E r \in Reqs : \E q \in Reqs :
        /\ req[r].pc = "done" /\ req[q].pc = "done"
        /\ ~req[r].committed /\ ~req[q].committed
        /\ req[r].order_id > 0 /\ req[r].k = 0
        /\ req[q].order_id > 0 /\ req[q].k = 1 /\ Len(req[q].order_details) = 2
        /\ HoldsNothing(r) /\ HoldsNothing(q)

\* The text is a decimal numeral: an optional sign, digits, at most one "."
NumericText(s) ==
    LET body == IF s # <<>> /\ s[1] \in {"-", "+"} THEN Tail(s) ELSE s
    IN  /\ \A i \in 1..Len(body) : body[i] \in Digits \cup {"."}
        /\ Cardinality({i \in 1..Len(body) : body[i] = "."}) <= 1
        /\ \E i \in 1..Len(body) : body[i] \in Digits

\* The value v of the list, with the quantity fields qty, is one the claim
\* lists as invalid: not exactly 3 fields, a price that is no numeral, a
\* quantity that is not all digits or is zero.
BadValue(v, qty) ==
    \/ Len(Split(v)) # 3
    \/ ~NumericText(Split(v)[3])
    \/ ~IsDigit(FormGet(qty, QtyKey(Split(v)[2])))
    \/ ToInt(FormGet(qty, QtyKey(Split(v)[2]))) <= 0

FailsValidation(f) ==
    \/ Strip(f.customer_name) = <<>>
    \/ Len(Strip(f.customer_name)) > MaxNameLen
    \/ ~MatchEmail(Strip(f.customer_email))
    \/ f.order_items = <<>>
    \/ \E k \in 1..Len(f.order_items) : BadValue(f.order_items[k], f.qty)

ValidationMessages ==
    {MsgName, MsgEmail, MsgNoItems, MsgItemFormat, MsgPrice, MsgQuantity}

\* C2: a submission that fails validation, whichever value of the list is
\* the invalid one, is answered with a redirect and one user-facing message;
\* no store connection is opened for it, no row is inserted (not even in an
\* open transaction) and no confirmation is sent.
RejectedBeforeStore ==
    \A r \in Reqs :
        req[r].pc # "new" /\ FailsValidation(req[r].form) =>
            /\ req[r].pc = "done"
            /\ req[r].result.kind = "redirect"
            /\ Len(req[r].flashes) = 1
            /\ req[r].flashes[1] \in ValidationMessages
            /\ req[r].connects = 0 /\ req[r].conn = "unset"
            /\ req[r].sends = 0
            /\ HoldsNothing(r) /\ db.tx[r] = NoTx
            /\ db.next_order_id = 1 /\ db.next_item_id = 1

RECURSIVE SumCents(_)
SumCents(lines) ==
    IF lines = <<>> THEN 0
    ELSE Round2(Head(lines).subtotal) + SumCents(Tail(lines))

RECURSIVE SumSubtotals(_)
SumSubtotals(S) ==
    IF S = {} THEN 0
    ELSE LET i == CHOOSE x \in S : TRUE
         IN  i.subtotal + SumSubtotals(S \ {i})

\* C3: for every accepted submission, at two-decimal currency precision,
\* each line's subtotal is unit_price x quantity and the total is the sum of
\* the lines' subtotals, in the values place_order computed (where they are
\* numbers) and in the rows of orders and order_items.
AmountsExact ==
    /\ \A r \in Reqs :
        /\ \A k \in 1..Len(req[r].order_details) :
            LET line == req[r].order_details[k]
            IN  ~line.subtotal.nan =>
                    Round2(line.subtotal) = Round2(line.price) * line.qty
        /\ ~req[r].total.nan =>
            Round2(req[r].total) = SumCents(req[r].order_details)
    /\ \A i \in db.order_items : i.subtotal = i.unit_price * i.quantity
    /\ \A o \in db.orders : o.total_amount = SumSubtotals(LinesOf(o))

\* C8: no order with a line of negative unit_price or negative subtotal is
\* ever committed: a value with a negative price is rejected.
NoNegativePriceCommitted ==
    \A i \in db.order_items : i.unit_price >= 0 /\ i.subtotal >= 0

\* C4: mail.send is attempted at most once per submission, and only for a
\* submission whose commit has returned, its rows being in the store and its
\* connection closed; a submission ended by validation or by the store has
\* no send.
MailOnlyAfterCommit ==
    \A r \in Reqs :
        /\ req[r].sends <= 1
        /\ req[r].sends = 1 =>
            /\ req[r].committed
            /\ HoldsWhole(r)
            /\ req[r].conn = "closed"
        /\ req[r].pc = "done" /\ req[r].result.kind # "confirmation" =>
            req[r].sends = 0

\* One submission was confirmed by mail after its commit, another one was
\* ended by the store after its header insert without a mail.
MailSentAndMailWithheld ==
    \E r \in Reqs : \E q \in Reqs :
        /\ Confirmed(r) /\ req[r].sends = 1 /\ req[r].mail.sent = "yes"
        /\ req[q].pc = "done" /\ req[q].result.kind = "redirect"
        /\ req[q].order_id > 0 /\ req[q].sends = 0

\* C5: when mail.send fails after the commit, place_order still answers
\* with the confirmation carrying the order id; the store holds the order
\* whole and once, from the one connection the request opened; and the
\* failure shows only as the flashed warning.
MailFailureKeepsOrder ==
    \A r \in Reqs :
        req[r].mail.sent = "failed" =>
            /\ Confirmed(r)
            /\ req[r].result.order_id = req[r].order_id
            /\ req[r].order_id > 0
            /\ HoldsWhole(r)
            /\ req[r].connects = 1 /\ req[r].sends = 1
            /\ req[r].flashes = <<MsgMail>>

\* A submission whose mail failed has been answered.
MailFailedOrderConfirmed ==
    \E r \in Reqs :
        /\ req[r].mail.sent = "failed"
        /\ req[r].pc = "done"
        /\ Len(req[r].order_details) = 2

\* C6: try_db_connect makes at most max_attempts probes and sleeps
\* base_delay x 2^(k-1) after the k-th failed probe; it returns (True, "ok")
\* at the first successful probe without a further wait, and a failure only
\* after max_attempts failed probes and all their waits, 7 units for
\* max_attempts = 3 and base_delay = 1, the detail naming max_attempts.
BackoffContract ==
    /\ hc.probes <= hc.max_attempts
    /\ hc.waits = [k \in 1..Len(hc.waits) |-> hc.base_delay * 2 ^ (k - 1)]
    /\ hc.pc = "probe" => Len(hc.waits) = hc.probes
    /\ hc.pc = "done" /\ hc.result.ok =>
        /\ hc.result.msg = <<"ok">>
        /\ hc.probes >= 1
        /\ Len(hc.waits) = hc.probes - 1
    /\ hc.pc = "done" /\ ~hc.result.ok =>
        /\ hc.probes = hc.max_attempts
        /\ Len(hc.waits) = hc.max_attempts
        /\ hc.slept = hc.base_delay * (2 ^ hc.max_attempts - 1)
        /\ hc.max_attempts = 3 /\ hc.base_delay = 1 => hc.slept >= 7
        /\ hc.result.msg[2] = hc.max_attempts

\* try_db_connect(3, 1) has failed against an unreachable store.
ThreeAttemptsFailed ==
    /\ hc.pc = "done" /\ ~hc.result.ok
    /\ hc.max_attempts = 3 /\ hc.base_delay = 1
    /\ hc.probes = 3 /\ hc.slept = 7

\* C7: once place_order has left its try statement, by the commit, by a
\* store error at any step or by any other exception, the connection it
\* opened is closed and the store keeps no open transaction of it.
ConnectionReleased ==
    \A r \in Reqs :
        req[r].pc \in {"send", "done"} =>
            /\ req[r].conn # "open"
            /\ req[r].cursor # "open"
            /\ db.tx[r] = NoTx

\* A request that opened a connection and was ended by another exception
\* than the store's, after its header insert, has its connection closed.
ReleasedAfterOtherError ==
    \E r \in Reqs :
        /\ req[r].pc = "done" /\ req[r].result.kind = "raised"
        /\ req[r].order_id > 0
        /\ req[r].conn = "closed"

\* C9: the order id of a successful submission is greater than the id of
\* every successful submission answered before it arrived, whatever failed
\* and was rolled back in between, and it is the id the store gave its
\* header row.
OrderIdsIncrease ==
    \A r \in Reqs :
        Confirmed(r) =>
            /\ \E o \in HeadersBy(r) : o.id = req[r].result.order_id
            /\ \A q \in req[r].before :
                Confirmed(q) => req[r].result.order_id > req[q].result.order_id

\* Two submissions succeeded with a rolled back header insert between them.
IdsIncreaseAcrossRollback ==
    \E q \in Reqs : \E x \in Reqs : \E r \in Reqs :
        /\ Confirmed(q) /\ Confirmed(r)
        /\ q \in req[x].before /\ x \in req[r].before
        /\ req[x].pc = "done" /\ ~req[x].committed /\ req[x].order_id > 0
        /\ req[r].result.order_id = req[q].result.order_id + 2

\* C10: under every interleaving of concurrent submissions, each committed
\* line row references the header row its own submission inserted, each
\* committed header has exactly its submission's lines in submission order,
\* and the rows of a committed submission stay in the store unaltered
\* whatever the other submissions do.
RowsBelongToOwnOrder ==
    /\ \A i \in db.order_items :
        \E o \in db.orders : o.id = i.order_id /\ o.by = i.by
    /\ \A o \in db.orders :
        /\ req[o.by].committed
        /\ InSubmissionOrder(LinesOf(o), o.by)
    /\ \A r \in Reqs : req[r].committed => HoldsWhole(r)

\* Two submissions committed with their line inserts interleaved.
InterleavedOrdersCommitted ==
    \E r \in Reqs : \E q \in Reqs :
        /\ r # q /\ req[r].committed /\ req[q].committed
        /\ \E a \in LinesBy(r) : \E b \in LinesBy(r) : \E c \in LinesBy(q) :
            a.id < c.id /\ c.id < b.id

====
